---- MODULE Spec2Model ----
(***************************************************************************)
(* Model of backend/ingest/ingest.py: the one-shot ingestion script        *)
(* load_documents -> split_documents -> build_vectorstore.                 *)
(*                                                                         *)
(* The script is a straight line of calls into langchain / chromadb.  The  *)
(* calls are modelled by what the called class does with the arguments the *)
(* script passes (and with the defaults of the arguments it leaves out):   *)
(*   DirectoryLoader(glob=..., loader_cls=...)   silent_errors=False,      *)
(*                                               load_hidden=False         *)
(*   RecursiveCharacterTextSplitter(chunk_size, chunk_overlap)             *)
(*        separators ["\n\n", "\n", " ", ""], keep_separator=True,         *)
(*        strip_whitespace=True, length_function=len                       *)
(*   Chroma.from_documents(documents, embedding, persist_directory,        *)
(*        collection_name, ids)   batches of embed_documents + upsert      *)
(* A text is a sequence of one-character strings.                          *)
(***************************************************************************)
EXTENDS Integers, Sequences, FiniteSets, TLC

\* ------------------------------------------------------------------ bounds
\* Longest document text the splitter is applied to in SplitSpec.
MaxLen == 6
\* Number of times the script is run against the same vector store directory.
MaxRuns == 2
\* Size of the pool uuid4() draws from.
NumIds == 4
\* Largest number of records the store takes in one upsert (max_batch_size).
MaxBatch == 1
\* Length of the vector the embedding provider returns for a text.
EmbedDim == 2

\* ------------------------------------------------- splitter configuration
\* RecursiveCharacterTextSplitter(chunk_size=800, chunk_overlap=150), scaled
\* down so that documents of a few characters are longer than a chunk.
chunk_size == 4
chunk_overlap == 1

SP == " "
NL == "\n"
Whitespace == {SP, NL}
Chars == {"a", "b", SP, NL}

\* The splitter's default separators "\n\n", "\n", " ", "".
separators == << <<NL, NL>>, <<NL>>, <<SP>>, <<>> >>

\* ------------------------------------------------------------ text helpers
RECURSIVE Concat(_)
Concat(ss) == IF ss = <<>> THEN <<>> ELSE Head(ss) \o Concat(Tail(ss))

RECURSIVE SumLen(_)
SumLen(ss) == IF ss = <<>> THEN 0 ELSE Len(Head(ss)) + SumLen(Tail(ss))

\* str.strip() with no argument: leading and trailing whitespace removed.
RECURSIVE LStrip(_)
LStrip(t) == IF t # <<>> /\ Head(t) \in Whitespace THEN LStrip(Tail(t)) ELSE t

RECURSIVE RStrip(_)
RStrip(t) ==
    IF t # <<>> /\ t[Len(t)] \in Whitespace THEN RStrip(SubSeq(t, 1, Len(t) - 1)) ELSE t

Strip(t) == RStrip(LStrip(t))

\* First index >= from at which sep occurs in t, 0 when there is none
\* (re.search of the escaped separator).
RECURSIVE Find(_, _, _)
Find(t, sep, from) ==
    IF from + Len(sep) - 1 > Len(t) THEN 0
    ELSE IF SubSeq(t, from, from + Len(sep) - 1) = sep THEN from
    ELSE Find(t, sep, from + 1)

\* Start indices of the non-overlapping occurrences of sep, left to right.
RECURSIVE Occurrences(_, _, _)
Occurrences(t, sep, from) ==
    LET i == Find(t, sep, from)
    IN  IF i = 0 THEN <<>> ELSE <<i>> \o Occurrences(t, sep, i + Len(sep))

\* _split_text_with_regex(text, separator, keep_separator=True): each piece
\* after the first starts with the separator that preceded it, the empty
\* pieces are dropped; the empty separator splits into single characters.
SplitWithRegex(t, sep) ==
    LET occ == Occurrences(t, sep, 1)
        n == Len(occ)
        piece(j) ==
            IF j = 0 THEN SubSeq(t, 1, (IF n = 0 THEN Len(t) ELSE occ[1] - 1))
            ELSE SubSeq(t, occ[j], (IF j = n THEN Len(t) ELSE occ[j + 1] - 1))
        all == IF sep = <<>> THEN [i \in 1..Len(t) |-> <<t[i]>>]
               ELSE [j \in 1..(n + 1) |-> piece(j - 1)]
    IN  SelectSeq(all, LAMBDA s : s # <<>>)

\* _join_docs with strip_whitespace off.
JoinDocsNoStrip(docs) == Concat(docs)

\* _join_docs(docs, separator="") : the pieces joined and stripped; the
\* result is <<>> when nothing is left (the code's None).
JoinDocs(docs) == Strip(Concat(docs))

\* Nothing of the emitted chunk is kept for the next one.
PopAll(current, dlen) == <<>>

\* The while loop of _merge_splits: pieces are popped from the front of the
\* current chunk until what is kept is no longer than chunk_overlap and the
\* next piece fits.
RECURSIVE PopFront(_, _)
PopFront(current, dlen) ==
    LET total == SumLen(current)
    IN  IF total > chunk_overlap \/ (total + dlen > chunk_size /\ total > 0)
        THEN PopFront(Tail(current), dlen)
        ELSE current

\* _merge_splits(splits, separator="").
RECURSIVE MergeLoop(_, _, _)
MergeLoop(splits, docs, current) ==
    IF splits = <<>>
    THEN IF JoinDocs(current) # <<>> THEN Append(docs, JoinDocs(current)) ELSE docs
    ELSE LET d == Head(splits)
             over == SumLen(current) + Len(d) > chunk_size
             emit == over /\ current # <<>> /\ JoinDocs(current) # <<>>
             docs2 == IF emit THEN Append(docs, JoinDocs(current)) ELSE docs
             kept == IF over /\ current # <<>> THEN PopFront(current, Len(d)) ELSE current
         IN  MergeLoop(Tail(splits), docs2, Append(kept, d))

MergeSplits(splits) == MergeLoop(splits, <<>>, <<>>)

\* The separator _split_text picks: the first of seps that is empty or occurs
\* in the text (0 when none does, and the last one is used).
RECURSIVE PickSeparator(_, _, _)
PickSeparator(t, seps, i) ==
    IF i > Len(seps) THEN 0
    ELSE IF seps[i] = <<>> \/ Find(t, seps[i], 1) # 0 THEN i
    ELSE PickSeparator(t, seps, i + 1)

\* RecursiveCharacterTextSplitter._split_text(text, separators).
RECURSIVE SplitText(_, _)
SplitText(t, seps) ==
    LET k == PickSeparator(t, seps, 1)
        separator == IF k = 0 THEN seps[Len(seps)] ELSE seps[k]
        new_separators ==
            IF k = 0 \/ separator = <<>> THEN <<>> ELSE SubSeq(seps, k + 1, Len(seps))
        splits == SplitWithRegex(t, separator)
        RECURSIVE Loop(_, _, _)
        Loop(i, good, final) ==
            IF i > Len(splits)
            THEN IF good # <<>> THEN final \o MergeSplits(good) ELSE final
            ELSE LET s == splits[i]
                 IN  IF Len(s) < chunk_size
                     THEN Loop(i + 1, Append(good, s), final)
                     ELSE LET flushed == IF good # <<>> THEN final \o MergeSplits(good)
                                         ELSE final
                              deeper == IF new_separators = <<>> THEN <<s>>
                                        ELSE SplitText(s, new_separators)
                          IN  Loop(i + 1, <<>>, flushed \o deeper)
    IN  Loop(1, <<>>, <<>>)

split_text(t) == SplitText(t, separators)

\* ------------------------------------------------------------- input files
\* The files that may lie under DATA_DIR, in the order a glob lists them.
PathOrder == <<"a.txt", "sub/b.txt", "c.md", "d.pdf", "e.png", ".h.txt">>
Paths == {PathOrder[i] : i \in DOMAIN PathOrder}

\* The extension of a path and whether a component of it starts with a dot.
FileExt == [p \in Paths |->
    CASE p \in {"a.txt", "sub/b.txt", ".h.txt"} -> "txt"
      [] p = "c.md" -> "md"
      [] p = "d.pdf" -> "pdf"
      [] OTHER -> "png"]
IsHidden == [p \in Paths |-> p = ".h.txt"]

\* What the files hold in the pipeline runs: the pages of a PDF, the one text
\* of any other file.
SampleContent == [p \in Paths |->
    CASE p = "a.txt" -> << <<SP, "a">> >>
      [] p = "sub/b.txt" -> << <<SP>> >>
      [] p = "c.md" -> << <<"a", "b">> >>
      [] p = "d.pdf" -> << <<"b">>, <<>> >>
      [] p = ".h.txt" -> << <<"a">> >>
      [] OTHER -> << <<>> >>]

Ids == 1..NumIds

VARIABLES
    fs,          \* the files under DATA_DIR
    bad,         \* the files of fs whose read or parse raises
    content,     \* path -> the texts the file holds
    run,         \* how many times the script has been started
    pc,          \* "start", "loaded", "split", "done" or "aborted"
    stages,      \* the functions entered in this run, in order
    docs,        \* what load_documents returned
    chunks,      \* what split_documents returned
    lastIds,     \* the ids list build_vectorstore passed to the store
    issued,      \* every id uuid4() has returned
    embedLog,    \* the batches the embedding provider was called for, in order
    err,         \* what ended the run: "none", "load", "embed" or "store"
    dirExists,   \* VECTORSTORE_DIR exists
    persisted,   \* persist() was called in this run
    collection,  \* the records of docs_collection in VECTORSTORE_DIR
    coll0,       \* the collection as the run found it
    prevDone     \* the run before this one ended with a vectorstore returned

vars == <<fs, bad, content, run, pc, stages, docs, chunks, lastIds, issued,
          embedLog, err, dirExists, persisted, collection, coll0, prevDone>>

input == <<fs, bad, content>>

\* ---------------------------------------------------------- load_documents
\* DirectoryLoader's glob "**/*.<ext>" under DATA_DIR: the files of that
\* extension at any depth; a file with a dot-component is left out
\* (load_hidden=False).
Glob(ext) ==
    SelectSeq(PathOrder, LAMBDA p : p \in fs /\ FileExt[p] = ext /\ ~IsHidden[p])

\* TextLoader: one document per file; PyPDFLoader: one per page, with the
\* page's index.
LoadFile(p) ==
    IF FileExt[p] = "pdf"
    THEN [k \in 1..Len(content[p]) |->
             [page_content |-> content[p][k], metadata |-> [source |-> p, page |-> k - 1]]]
    ELSE << [page_content |-> content[p][1], metadata |-> [source |-> p]] >>

RECURSIVE LoadAll(_)
LoadAll(ps) == IF ps = <<>> THEN <<>> ELSE LoadFile(Head(ps)) \o LoadAll(Tail(ps))

\* silent_errors=True: a file that raises is logged and left out.
DirectoryLoaderSilent(ext) ==
    [raised |-> FALSE, docs |-> LoadAll(SelectSeq(Glob(ext), LAMBDA p : p \notin bad))]

\* DirectoryLoader(DATA_DIR, glob, loader_cls).load() with silent_errors left
\* at False: the first file that raises ends the load with its exception.
DirectoryLoader(ext) ==
    IF \E i \in DOMAIN Glob(ext) : Glob(ext)[i] \in bad
    THEN [raised |-> TRUE, docs |-> <<>>]
    ELSE [raised |-> FALSE, docs |-> LoadAll(Glob(ext))]

LoadDocuments ==
    /\ pc = "start"
    /\ stages' = Append(stages, "load")
    /\ LET txt == DirectoryLoader("txt")
           pdf == DirectoryLoader("pdf")
       IN  IF txt.raised \/ pdf.raised
           THEN /\ pc' = "aborted"
                /\ err' = "load"
                /\ docs' = docs
           ELSE /\ pc' = "loaded"
                /\ err' = err
                /\ docs' = txt.docs \o pdf.docs
    /\ UNCHANGED <<input, run, chunks, lastIds, issued, embedLog, dirExists,
                   persisted, collection, coll0, prevDone>>

\* --------------------------------------------------------- split_documents
\* TextSplitter.split_documents: the chunks of each document in order, each
\* with a copy of its document's metadata.
ChunksOf(d) ==
    [i \in 1..Len(split_text(d.page_content)) |->
        [page_content |-> split_text(d.page_content)[i], metadata |-> d.metadata]]

RECURSIVE SplitAll(_)
SplitAll(ds) == IF ds = <<>> THEN <<>> ELSE ChunksOf(Head(ds)) \o SplitAll(Tail(ds))

SplitDocuments ==
    /\ pc = "loaded"
    /\ stages' = Append(stages, "split")
    /\ chunks' = SplitAll(docs)
    /\ pc' = "split"
    /\ UNCHANGED <<input, run, docs, lastIds, issued, embedLog, err, dirExists,
                   persisted, collection, coll0, prevDone>>

\* --------------------------------------------------------- build_vectorstore
IsInjective(s) == \A i, j \in DOMAIN s : i # j => s[i] # s[j]

\* One uuid4() multiplied by the number of chunks.
Uuid4Repeated(n) == {[i \in 1..n |-> x] : x \in Ids \ issued}

\* Ids derived from the position of the chunk.
Uuid4ByPosition(n) == {[i \in 1..n |-> i]}

\* [str(uuid4()) for _ in chunks]: n random ids.  A draw is modelled as a
\* fresh one: it returns no id that an earlier draw returned.
Uuid4List(n) == {s \in [1..n -> Ids \ issued] : IsInjective(s)}

\* The vector the embedding provider returns for a text.
Embed(text) == [i \in 1..EmbedDim |-> Len(text) % 2]

\* A record without the chunk's metadata.
RecordNoMetadata(id, chunk) ==
    [id |-> id, document |-> chunk.page_content, metadata |-> [source |-> ""],
     embedding |-> Embed(chunk.page_content)]

\* What the store keeps for a chunk: Chroma.from_documents passes the
\* chunk's page_content and metadata, add_texts adds the embedding.
Record(id, chunk) ==
    [id |-> id, document |-> chunk.page_content, metadata |-> chunk.metadata,
     embedding |-> Embed(chunk.page_content)]

\* collection.upsert: a record whose id is in the collection is replaced.
Upsert(coll, recs) ==
    {r \in coll : \A q \in recs : q.id # r.id} \cup recs

\* chromadb's create_batches: slices of max_batch_size when there are more
\* ids than that, else the one batch of everything (also when it is empty).
RECURSIVE Slices(_, _)
Slices(ids, chs) ==
    IF Len(ids) <= MaxBatch THEN << [ids |-> ids, chunks |-> chs] >>
    ELSE << [ids |-> SubSeq(ids, 1, MaxBatch), chunks |-> SubSeq(chs, 1, MaxBatch)] >>
         \o Slices(SubSeq(ids, MaxBatch + 1, Len(ids)), SubSeq(chs, MaxBatch + 1, Len(chs)))

CreateBatches(ids, chs) == Slices(ids, chs)

\* Chroma.from_texts' loop: for each batch add_texts embeds the batch's texts
\* (no provider call for an empty list) and upserts the records.  The
\* provider call or the write of batch failAt raises; the store itself
\* rejects an empty id list and a batch that repeats an id.  What raises ends
\* the loop; the batches written before it stay written.
RECURSIVE AddBatches(_, _, _, _, _)
AddBatches(batches, k, st, failAt, failKind) ==
    IF k > Len(batches) THEN st
    ELSE LET b == batches[k]
             called == b.chunks # <<>>
             log2 == IF called THEN Append(st.log, k) ELSE st.log
             n == IF Len(b.ids) < Len(b.chunks) THEN Len(b.ids) ELSE Len(b.chunks)
             recs == {Record(b.ids[i], b.chunks[i]) : i \in 1..n}
         IN  IF called /\ failAt = k /\ failKind = "embed"
             THEN [coll |-> st.coll, log |-> log2, err |-> "embed"]
             ELSE IF b.ids = <<>> \/ ~IsInjective(b.ids)
                     \/ (failAt = k /\ failKind = "store")
             THEN [coll |-> st.coll, log |-> log2, err |-> "store"]
             ELSE AddBatches(batches, k + 1,
                             [coll |-> Upsert(st.coll, recs), log |-> log2, err |-> "none"],
                             failAt, failKind)

from_documents(coll, chs, ids, failAt, failKind) ==
    AddBatches(CreateBatches(ids, chs), 1, [coll |-> coll, log |-> <<>>, err |-> "none"],
               failAt, failKind)

\* An except clause around the store call that logs the error and goes on.
SwallowError(e) == [pc |-> "done", persisted |-> TRUE]

\* No try/except in build_vectorstore: an exception of from_documents leaves
\* the function there; otherwise persist() is called and the store returned.
AfterFromDocuments(e) ==
    IF e = "none" THEN [pc |-> "done", persisted |-> TRUE]
    ELSE [pc |-> "aborted", persisted |-> FALSE]

\* The stage from which build_vectorstore is entered.
EnteredAfterLoad == "loaded"

EnteredAfter == "split"

BuildVectorstore ==
    /\ pc = EnteredAfter
    /\ stages' = Append(stages, "index")
    /\ dirExists' = TRUE
    /\ \E ids \in Uuid4List(Len(chunks)) :
       \E failAt \in 0..Len(CreateBatches(ids, chunks)), failKind \in {"embed", "store"} :
          LET r == from_documents(collection, chunks, ids, failAt, failKind)
              after == AfterFromDocuments(r.err)
          IN  /\ lastIds' = ids
              /\ issued' = issued \cup {ids[i] : i \in DOMAIN ids}
              /\ collection' = r.coll
              /\ embedLog' = r.log
              /\ err' = r.err
              /\ pc' = after.pc
              /\ persisted' = after.persisted
    /\ UNCHANGED <<input, run, docs, chunks, coll0, prevDone>>

\* ---------------------------------------------------------------- __main__
\* The script is started again on the same input and the same
\* VECTORSTORE_DIR: what the process held is gone, what is on disk stays.
Rerun ==
    /\ pc \in {"done", "aborted"}
    /\ run < MaxRuns
    /\ run' = run + 1
    /\ pc' = "start"
    /\ stages' = <<>>
    /\ docs' = <<>>
    /\ chunks' = <<>>
    /\ lastIds' = <<>>
    /\ embedLog' = <<>>
    /\ err' = "none"
    /\ persisted' = FALSE
    /\ coll0' = collection
    /\ prevDone' = (pc = "done")
    /\ UNCHANGED <<input, issued, dirExists, collection>>

Fresh ==
    /\ run = 1
    /\ pc = "start"
    /\ stages = <<>>
    /\ docs = <<>>
    /\ chunks = <<>>
    /\ lastIds = <<>>
    /\ issued = {}
    /\ embedLog = <<>>
    /\ err = "none"
    /\ dirExists = FALSE
    /\ persisted = FALSE
    /\ collection = {}
    /\ coll0 = {}
    /\ prevDone = FALSE

\* Any set of the files, at most one of them unreadable.
Init ==
    /\ fs \in SUBSET Paths
    /\ bad \in {b \in SUBSET fs : Cardinality(b) <= 1}
    /\ content = SampleContent
    /\ Fresh

Next == LoadDocuments \/ SplitDocuments \/ BuildVectorstore \/ Rerun

Spec == Init /\ [][Next]_vars

\* ------------------------------------------- the splitter on every text
Texts == UNION {[1..n -> Chars] : n \in 0..MaxLen}

\* One readable text file holding any text of at most MaxLen characters.
SplitInit ==
    /\ fs = {"a.txt"}
    /\ bad = {}
    /\ \E t \in Texts : content = [SampleContent EXCEPT !["a.txt"] = <<t>>]
    /\ Fresh

SplitNext == LoadDocuments \/ SplitDocuments

SplitSpec == SplitInit /\ [][SplitNext]_vars

\* ================================================================== claims
Range(s) == {s[i] : i \in DOMAIN s}

\* The files the loader opens: those one of its two globs lists.
Opened == Range(Glob("txt")) \cup Range(Glob("pdf"))

\* The document a chunk was cut from is the one with the chunk's metadata.
ParentText(c) == (CHOOSE d \in Range(docs) : d.metadata = c.metadata).page_content

\* The first and the last n characters of a text.
Prefix(t, n) == SubSeq(t, 1, IF n < Len(t) THEN n ELSE Len(t))
Suffix(t, n) == SubSeq(t, IF n < Len(t) THEN Len(t) - n + 1 ELSE 1, Len(t))

HasWhitespace(t) == \E i \in DOMAIN t : t[i] \in Whitespace

\* Chunks i and i+1 come from one document, and it is longer than a chunk.
ConsecutiveInLongDoc(i) ==
    /\ i \in 1..(Len(chunks) - 1)
    /\ chunks[i].metadata = chunks[i + 1].metadata
    /\ Len(ParentText(chunks[i])) > chunk_size

ExactOverlap(i) ==
    /\ Len(chunks[i].page_content) >= chunk_overlap
    /\ Len(chunks[i + 1].page_content) >= chunk_overlap
    /\ Suffix(chunks[i].page_content, chunk_overlap)
         = Prefix(chunks[i + 1].page_content, chunk_overlap)

\* The chunks a document was cut into, in order.
ChunksFrom(d) == SelectSeq(chunks, LAMBDA c : c.metadata = d.metadata)

\* C1: the ids build_vectorstore passes to the store in one run, one per
\* chunk, are pairwise distinct, so every record written in the run has an id
\* no other record written in the run has.
C1_DistinctIds ==
    (stages = <<"load", "split", "index">>) =>
        /\ Len(lastIds) = Len(chunks)
        /\ IsInjective(lastIds)
        /\ \A r \in collection \ coll0 : \E i \in DOMAIN lastIds : r.id = lastIds[i]

C1_Witness == pc = "done" /\ Len(chunks) >= 2 /\ Cardinality(collection \ coll0) >= 2

\* C2 as stated: a file that fails to read or parse is skipped and the run
\* continues: load_documents returns the documents of the other files.
C2_SkippedAndContinues ==
    (stages # <<>> /\ bad # {}) =>
        /\ err # "load"
        /\ docs = DirectoryLoaderSilent("txt").docs \o DirectoryLoaderSilent("pdf").docs

\* C2 amended: a file the loader opens that fails to read or parse is not
\* skipped: its error ends load_documents, no document list is returned and
\* neither the split nor the index stage runs.  A failing file the loader
\* never opens (unmatched or hidden) does not end the load.
C2_LoadAborts ==
    (stages # <<>>) =>
        IF Opened \cap bad # {}
        THEN /\ pc = "aborted" /\ err = "load"
             /\ stages = <<"load">>
             /\ docs = <<>> /\ chunks = <<>> /\ lastIds = <<>>
             /\ collection = coll0 /\ ~persisted
        ELSE err # "load"

C2_Witness == stages # <<>> /\ Opened \cap bad # {} /\ Cardinality(Opened) >= 2

\* C3 as stated: with no file of a supported type (.txt, .md, .pdf) under the
\* input directory, the run loads no document, makes no chunk, writes no
\* record and ends without an error.
C3_EmptyRunCompletes ==
    (\A p \in fs : FileExt[p] \notin {"txt", "md", "pdf"}) =>
        /\ docs = <<>> /\ chunks = <<>>
        /\ collection = {}
        /\ err = "none"
        /\ pc # "aborted"

\* C4: when the embedding provider call fails for a batch, the run aborts
\* with that failure: no batch is sent to the provider twice, persist() is
\* not called and no vectorstore is returned.
C4_EmbedFailureAborts ==
    (err = "embed") =>
        /\ pc = "aborted"
        /\ ~persisted
        /\ IsInjective(embedLog)
        /\ Len(embedLog) <= Len(chunks)

C4_Witness == err = "embed" /\ Len(embedLog) = 2 /\ collection # coll0

\* C5: the second of two completed runs on the same input leaves the
\* collection with the records of both runs, 2n for n chunks per run: no
\* id of the second run is in the collection already and no record of the
\* first run is replaced or removed.
C5_RerunAppends ==
    (run = 2 /\ pc = "done" /\ prevDone) =>
        /\ Cardinality(coll0) = Len(chunks)
        /\ coll0 \subseteq collection
        /\ Cardinality(collection) = 2 * Len(chunks)
        /\ \A i \in DOMAIN lastIds : \A r \in coll0 : r.id # lastIds[i]

C5_Witness == run = 2 /\ pc = "done" /\ prevDone /\ Len(chunks) = 2

\* C6: after a run whose embedding and storage succeed, the collection has
\* gained exactly one record per chunk: as many ids were passed as there are
\* chunks, and the record of chunk i has the i-th id, the chunk's text and
\* metadata and one embedding vector.
C6_OneRecordPerChunk ==
    (pc = "done") =>
        /\ Len(lastIds) = Len(chunks)
        /\ coll0 \subseteq collection
        /\ Cardinality(collection \ coll0) = Len(chunks)
        /\ collection \ coll0 =
              {[id |-> lastIds[i], document |-> chunks[i].page_content,
                metadata |-> chunks[i].metadata,
                embedding |-> Embed(chunks[i].page_content)] : i \in DOMAIN chunks}
        /\ \A r \in collection \ coll0 : Len(r.embedding) = EmbedDim

C6_Witness ==
    /\ pc = "done"
    /\ Len(chunks) = 2
    /\ chunks[1].metadata # chunks[2].metadata

\* C7 as stated: in a document longer than the maximum chunk size, the last
\* chunk_overlap characters of each chunk are the first chunk_overlap
\* characters of the next chunk.
C7_ExactOverlap ==
    (pc = "split") => \A i \in DOMAIN chunks : ConsecutiveInLongDoc(i) => ExactOverlap(i)

\* C7 amended: the same, for the documents whose text holds no whitespace
\* (for them the splitter cuts between characters and strips nothing).
C7_ExactOverlapNoWhitespace ==
    (pc = "split") =>
        \A i \in DOMAIN chunks :
            (ConsecutiveInLongDoc(i) /\ ~HasWhitespace(ParentText(chunks[i])))
                => ExactOverlap(i)

C7_Witness ==
    /\ pc = "split"
    /\ Len(chunks) = 2
    /\ ConsecutiveInLongDoc(1)
    /\ ~HasWhitespace(ParentText(chunks[1]))
    /\ chunks[1].page_content = <<"a", "a", "a", "b">>
    /\ chunks[2].page_content = <<"b", "a", "a">>

\* C8 as stated: a document no longer than the maximum chunk size gives
\* exactly one chunk, with the document's full text and metadata, and an
\* empty document gives no chunk.
C8_ShortDocOneChunk ==
    (pc = "split") =>
        \A k \in DOMAIN docs :
            Len(docs[k].page_content) <= chunk_size =>
                ChunksFrom(docs[k]) =
                    IF docs[k].page_content = <<>> THEN <<>> ELSE <<docs[k]>>

\* C8 amended: a document no longer than the maximum chunk size gives
\* exactly one chunk, with the document's text less its leading and trailing
\* whitespace and with the document's metadata; a document that is empty or
\* all whitespace gives no chunk.
C8_ShortDocOneStrippedChunk ==
    (pc = "split") =>
        \A k \in DOMAIN docs :
            Len(docs[k].page_content) <= chunk_size =>
                ChunksFrom(docs[k]) =
                    IF \A i \in DOMAIN docs[k].page_content :
                           docs[k].page_content[i] \in Whitespace
                    THEN <<>>
                    ELSE << [page_content |-> Strip(docs[k].page_content),
                             metadata |-> docs[k].metadata] >>

C8_Witness ==
    /\ pc = "split"
    /\ docs[1].page_content = <<SP, "a", "b", NL>>
    /\ Len(chunks) = 1
    /\ chunks[1].page_content = <<"a", "b">>

\* C9 as stated: when load_documents returns, it has loaded every .txt, .md
\* and .pdf file under the input directory and nothing else: one document
\* per .txt or .md file, one per page of a .pdf.
C9_SelectsTxtMdPdf ==
    (pc \in {"loaded", "split", "done"}) =>
        /\ {d.metadata.source : d \in Range(docs)}
             = {p \in fs : FileExt[p] \in {"txt", "md", "pdf"}}
        /\ \A p \in fs :
              FileExt[p] \in {"txt", "md", "pdf"} =>
                  Len(SelectSeq(docs, LAMBDA d : d.metadata.source = p))
                      = IF FileExt[p] = "pdf" THEN Len(content[p]) ELSE 1

\* C10: in a run the stages are entered in the order load, split, index, each
\* at most once; the chunks are cut from the complete document list, and no
\* embedding call, store write, persist or creation of the storage directory
\* comes before split_documents has returned the chunks.
C10_StagesInOrder ==
    /\ stages \in {<<>>, <<"load">>, <<"load", "split">>, <<"load", "split", "index">>}
    /\ (Len(stages) >= 2) =>
          /\ docs = LoadAll(Glob("txt")) \o LoadAll(Glob("pdf"))
          /\ chunks = SplitAll(docs)
    /\ (Len(stages) < 2) => chunks = <<>>
    /\ (Len(stages) < 3) =>
          /\ embedLog = <<>> /\ lastIds = <<>> /\ ~persisted
          /\ collection = coll0
          /\ (run = 1 => ~dirExists)

C10_Witness ==
    /\ pc = "done"
    /\ stages = <<"load", "split", "index">>
    /\ Len(docs) = 3
    /\ Len(chunks) = 2
    /\ Len(embedLog) = 2
====
